---- MODULE Spec2Model ----
(***************************************************************************)
(* Washing-machine controller of src/main.cpp as a state machine.          *)
(*                                                                         *)
(* Numbers.  An AnalogIn read() is a float in [0,1].  A sensor read is     *)
(* kept in hundredths (1.0 is 100), so the float thresholds of lines 17    *)
(* and 24-27 are multiplied by 100 (0.7f is 70, 40.0f is 4000).  A         *)
(* potentiometer read is kept in units of 1/PotUnits.  The value returned  *)
(* by readAveragedSensor is kept as the sum of its NUM_SAMPLES samples     *)
(* (the mean times NUM_SAMPLES), so a mean is compared with a threshold t  *)
(* as sum against t * NUM_SAMPLES and no fraction is lost.                 *)
(*                                                                         *)
(* Control.  pc is the position of the single thread of main():            *)
(*   "power"     top of the loop, about to run lines 294-305               *)
(*   "start"     inside handleButtons, about to run lines 308-348          *)
(*   "countdown" inside runCycleCountdown, at the loop test of line 131    *)
(*   "beeps"     inside runCycleCountdown, at the loop test of line 140    *)
(*   "switch"    handleButtons has returned, at the switch of line 364     *)
(***************************************************************************)
EXTENDS Integers, Sequences, FiniteSets, TLC

\* ---------------------------------------------------------------- bounds
\* resolution of a potentiometer read: the values 0/PotUnits .. PotUnits/PotUnits
PotUnits == 16
\* sensor polls explored (doorClosedCount and doorOpenCount grow without limit)
MaxCount == 3

\* ------------------------------------------------------ program constants
DOOR_OPEN_THRESHOLD == 4000
FSR_THRESHOLD == 10
LDR_THRESHOLD == 1500
TEMP_THRESHOLD == 500
DEBOUNCE_COUNT == 3
NUM_SAMPLES == 5
LOAD_LIGHT == 20
LOAD_MEDIUM == 40
LOAD_HEAVY == 60
LOAD_OVERLOAD == 70
BEEP_REPEATS == 3
\* lines 61-66: the value of a prev* field before the first report (-1)
PREV_UNSET == 0 - 1
DISPLAY_OFF == 0

hexDis == <<63, 6, 91, 79, 102, 109, 125, 7, 127, 111, 119, 124, 57, 94, 121, 113>>

\* ------------------------------------------------------------ input sets
Levels == {0, 1}                  \* DigitalIn read(): 0 pressed, 1 released
PotValues == 0 .. PotUnits        \* a potentiometer read
\* the time potentiometer as the sensor poll reads it: fully down or fully up
PotEnds == {0, PotUnits}
\* the rpm and temperature potentiometers: half way
PotHalf == {PotUnits \div 2}
LoadLevels == {10, 75}            \* the force sensor: 0.10 and 0.75
\* the force sensor as a sensor poll reads it: also LOAD_OVERLOAD itself, 0.70
PollLoadLevels == LoadLevels \cup {LOAD_OVERLOAD}
\* the light sensor: 0.10 (10%) and 0.80 (80%), steady over the reads of a poll
LdrLevels == {10, 80}
TempLevels == {15}                \* the temperature sensor: 0.15 (24.75 degrees)
\* the NUM_SAMPLES samples of one averaged read, the sensor steady over them
SampleRuns(S) == {[k \in 1 .. NUM_SAMPLES |-> v] : v \in S}

NoSettings == [rpm |-> 0, temp |-> 0, time |-> 0]
NoReading == 0 - 1

VARIABLES
    pc,
    systemState, doorOpenWarningActive, overloadWarningActive,
    lastPowerState, lastStartState,
    doorOpenCount, doorClosedCount,
    rgb, redLED, buzzer, segDis,
    settings, i, beeps,
    prevFsr, prevLdr, prevTempActual, prevRpm, prevTemp, prevTime,
    events, pwrR1, pwrR2, pressLoad, lightRun, overRun, startHeld, shown, probe

vars == <<pc, systemState, doorOpenWarningActive, overloadWarningActive,
          lastPowerState, lastStartState, doorOpenCount, doorClosedCount,
          rgb, redLED, buzzer, segDis, settings, i, beeps,
          prevFsr, prevLdr, prevTempActual, prevRpm, prevTemp, prevTime,
          events, pwrR1, pwrR2, pressLoad, lightRun, overRun, startHeld, shown,
          probe>>

\* program state
progVars == <<systemState, doorOpenWarningActive, overloadWarningActive,
              lastPowerState, lastStartState, doorOpenCount, doorClosedCount,
              rgb, redLED, buzzer, segDis>>

\* lines 60-66: the values last reported on the serial line
prevVars == <<prevFsr, prevLdr, prevTempActual, prevRpm, prevTemp, prevTime>>

\* --------------------------------------------------------- pure functions
RECURSIVE SumTo(_, _)
SumTo(s, n) == IF n = 0 THEN 0 ELSE s[n] + SumTo(s, n - 1)

\* lines 118-125: the mean of NUM_SAMPLES samples, kept as their sum
readAveragedSensor(samples) == SumTo(samples, NUM_SAMPLES)

\* lines 118-125 with a scale: the scaled mean in hundredths, kept as a sum
readAveragedScaled(samples, scale) == scale * readAveragedSensor(samples)

\* fabs
Abs(x) == IF x < 0 THEN 0 - x ELSE x

\* lines 147-149; newVal and prevVal are sums where threshold is scaled to a sum
hasSignificantChange(newVal, prevVal, threshold) ==
    prevVal < 0 \/ Abs(newVal - prevVal) >= threshold

\* roundf(potVal * 8.0f) for potVal = p / PotUnits (half away from zero)
Roundf8(p) == (16 * p + PotUnits) \div (2 * PotUnits)

\* (int)(x): truncation of num / den for num, den >= 0
Trunc(num, den) == num \div den

\* lines 201, 324
RpmSetting(p) == Trunc(7 * p + 2 * PotUnits, PotUnits) * 100
\* lines 202, 325
TempSetting(p) == Trunc(4 * p + 2 * PotUnits, PotUnits) * 10

\* the cap of line 207
CapTensEight(t) == IF t > 8 THEN 8 ELSE t
CapTens(t) == IF t > 9 THEN 9 ELSE t

\* lines 205-208: time in readAndProcessSensors
TimeOffsetZero(r) == r
TimeOffset(r) == r + 1
SensorTime(p) == CapTens(TimeOffset(Roundf8(p))) * 10

\* lines 326-327: time in handleButtons
CapturedTime(p) ==
    LET t == TimeOffset(Roundf8(p)) * 10
    IN  IF t > 90 THEN 90 ELSE t

\* lines 152-154: ldrSensor is the AnalogIn itself, read() in [0,1]
isDoorOpen(ldr) == ldr > DOOR_OPEN_THRESHOLD

\* lines 157-159
isOverloaded(load) == load > LOAD_OVERLOAD * NUM_SAMPLES

\* lines 103-115, the duties in hundredths
setLoadLevelColorInclusive(load) ==
    IF load <= LOAD_LIGHT * NUM_SAMPLES THEN <<0, 100, 0>>
    ELSE IF load <= LOAD_MEDIUM * NUM_SAMPLES THEN <<50, 100, 0>>
    ELSE IF load <= LOAD_HEAVY * NUM_SAMPLES THEN <<100, 100, 0>>
    ELSE IF load <= LOAD_OVERLOAD * NUM_SAMPLES THEN <<100, 50, 0>>
    ELSE <<100, 0, 0>>
setLoadLevelColor(load) ==
    IF load < LOAD_LIGHT * NUM_SAMPLES THEN <<0, 100, 0>>
    ELSE IF load < LOAD_MEDIUM * NUM_SAMPLES THEN <<50, 100, 0>>
    ELSE IF load < LOAD_HEAVY * NUM_SAMPLES THEN <<100, 100, 0>>
    ELSE IF load < LOAD_OVERLOAD * NUM_SAMPLES THEN <<100, 50, 0>>
    ELSE <<100, 0, 0>>

\* lines 162-168
updateDisplay(value, state) ==
    IF state = "OFF" THEN DISPLAY_OFF ELSE hexDis[(value % 10) + 1]

\* lines 95-100: the duty the buzzer is left with
playBeep(freq) == 0

\* line 294: the power button's edge test
PowerFiresLevel(level, last) == level = 0
PowerFires(level, last) == level = 0 /\ last = 1

\* line 308: the start button's edge test
StartFires(level, last, state) == level = 0 /\ last = 1 /\ state # "OFF"

\* lines 303-305 and 346-348: the latch after the second read
Latch(last, level) == IF level = 1 THEN 1 ELSE last

\* lines 314-322: a cycle may start
StartAllowedDoorOnly(door, over) == ~door
StartAllowedNever(door, over) == FALSE
StartAllowed(door, over) == ~door /\ ~over

\* comment of line 17 with the scaling of line 212: the light level in percent
\* is above the door-open threshold
LightAboveThreshold(ldr) == ldr * 100 > DOOR_OPEN_THRESHOLD

\* lines 250-256: <<doorOpenCount, doorClosedCount>> after one door reading
DoorCountsNoIncrement(reading, openCount, closedCount) ==
    IF reading THEN <<openCount, 0>> ELSE <<0, closedCount>>
DoorCounts(reading, openCount, closedCount) ==
    IF reading THEN <<openCount + 1, 0>> ELSE <<0, closedCount + 1>>

\* line 272
DoorLedInverted(flag) == IF flag THEN 0 ELSE 1
DoorLed(flag) == IF flag THEN 1 ELSE 0

\* lines 259-261
DoorDebounce(flag, openCount, closedCount) ==
    IF flag THEN closedCount < DEBOUNCE_COUNT ELSE openCount >= DEBOUNCE_COUNT

\* lines 280-281
OverloadUpdateLatched(flag, current) == flag \/ current
OverloadUpdate(flag, current) == IF current # flag THEN current ELSE flag

\* lines 280-287: the messages of the overload branch
OverloadWarnedEveryPoll(flag, current) == current
OverloadWarned(flag, current) == current # flag /\ current
OverloadCleared(flag, current) == current # flag /\ ~current

\* line 337: the state handleButtons leaves after runCycleCountdown returns
StateAfterCycleKept(state) == state
StateAfterCycle(state) == "IDLE"

\* line 131: --i
CountdownStuck(n) == n
CountdownSkip(n) == n - 2
CountdownNext(n) == n - 1

\* -------------------------------------------------------------- history
\* events     what the last step printed or beeped
\* pwrR1/R2   the two reads of the power button in the last pass of lines 294-305
\* pressLoad  the load an averaged read would have returned when the last start
\*            event was handled in Idle
\* lightRun   the sensor polls in a row, ending with the latest, at which the
\*            light was above the door-open threshold, up to DEBOUNCE_COUNT
\* overRun    see RunAfter
\* startHeld  the start button was read pressed in a pass with the system Off
\*            and every read of it since was pressed
\* shown      the values runCycleCountdown has passed to updateDisplay in the
\*            cycle in progress, in order, the first MaxShown of them
Min(a, b) == IF a < b THEN a ELSE b

\* the display updates of the longest cycle: 90 minutes, 9 steps and the final 0
MaxShown == (90 \div 10) + 1
Record(seq, value) == IF Len(seq) < MaxShown THEN Append(seq, value) ELSE seq

\* history: the polls in a row, ending with the latest, that read the same raw
\* overload condition, counted up to DEBOUNCE_COUNT; positive when they read
\* overloaded, negative when not, 0 before the first poll
RunAfter(run, cond) ==
    IF cond THEN (IF run > 0 THEN Min(run + 1, DEBOUNCE_COUNT) ELSE 1)
    ELSE 0 - (IF run < 0 THEN Min(1 - run, DEBOUNCE_COUNT) ELSE 1)

\* ------------------------------------------------------------------ Init
\* lines 52-70 and 353-356
InitProgram ==
    /\ pc = "power"
    /\ systemState = "OFF"
    /\ doorOpenWarningActive = FALSE
    /\ overloadWarningActive = FALSE
    /\ lastPowerState = 0
    /\ lastStartState = 0
    /\ doorOpenCount = 0
    /\ doorClosedCount = 0
    /\ rgb = <<0, 0, 0>>
    /\ redLED = 0
    /\ buzzer = 0
    /\ segDis = updateDisplay(0, "OFF")
    /\ settings = NoSettings
    /\ i = 0
    /\ beeps = 0
    /\ events = {}
    /\ pwrR1 = 0
    /\ pwrR2 = 0
    /\ pressLoad = NoReading
    /\ lightRun = 0
    /\ overRun = 0
    /\ startHeld = FALSE
    /\ prevFsr = PREV_UNSET
    /\ prevLdr = PREV_UNSET
    /\ prevTempActual = PREV_UNSET
    /\ prevRpm = PREV_UNSET
    /\ prevTemp = PREV_UNSET
    /\ prevTime = PREV_UNSET
    /\ shown = <<>>

Init ==
    /\ InitProgram
    /\ probe = <<>>

\* --------------------------------------------------------------- actions
\* lines 171-180
powerOn ==
    /\ systemState' = "IDLE"
    /\ buzzer' = playBeep(600)
    /\ UNCHANGED <<rgb, redLED, segDis, doorOpenWarningActive, overloadWarningActive>>

\* lines 183-196
powerOffKeepsOutputs ==
    /\ systemState' = "OFF"
    /\ buzzer' = playBeep(600)
    /\ segDis' = updateDisplay(0, "OFF")
    /\ doorOpenWarningActive' = FALSE
    /\ overloadWarningActive' = FALSE
    /\ UNCHANGED <<rgb, redLED>>

powerOffStaysOn ==
    /\ buzzer' = playBeep(600)
    /\ rgb' = <<0, 0, 0>>
    /\ redLED' = 0
    /\ segDis' = updateDisplay(0, systemState)
    /\ doorOpenWarningActive' = FALSE
    /\ overloadWarningActive' = FALSE
    /\ UNCHANGED systemState

powerOff ==
    /\ systemState' = "OFF"
    /\ buzzer' = playBeep(600)
    /\ rgb' = <<0, 0, 0>>
    /\ redLED' = 0
    /\ segDis' = updateDisplay(0, "OFF")
    /\ doorOpenWarningActive' = FALSE
    /\ overloadWarningActive' = FALSE

\* lines 294-305: the power button part of handleButtons
HandlePowerButton ==
    /\ pc = "power"
    /\ \E r1 \in Levels, r2 \in Levels :
        LET fired == PowerFires(r1, lastPowerState)
        IN  /\ IF fired
               THEN IF systemState = "OFF" THEN powerOn ELSE powerOff
               ELSE UNCHANGED <<systemState, buzzer, rgb, redLED, segDis,
                                doorOpenWarningActive, overloadWarningActive>>
            /\ lastPowerState' = Latch(IF fired THEN 0 ELSE lastPowerState, r2)
            /\ events' = IF fired
                         THEN {IF systemState = "OFF" THEN "powerOn" ELSE "powerOff"}
                         ELSE {}
            /\ pwrR1' = r1
            /\ pwrR2' = r2
    /\ pc' = "start"
    /\ pressLoad' = NoReading
    /\ UNCHANGED <<lastStartState, doorOpenCount, doorClosedCount, settings, i,
                   beeps, lightRun, overRun, startHeld, probe, prevVars, shown>>

\* lines 314-321: the start is refused, then lines 346-348
RejectStart(r2) ==
    /\ events' = {"startPress",
                  IF doorOpenWarningActive THEN "rejectDoor" ELSE "rejectOverload"}
    /\ buzzer' = playBeep(300)
    /\ lastStartState' = Latch(0, r2)
    /\ startHeld' = (startHeld /\ r2 = 0)
    /\ pc' = "switch"
    /\ UNCHANGED <<systemState, settings, i>>

\* lines 323-334: the settings are captured and runCycleCountdown is entered
BeginCycle(pr, pt, pm) ==
    /\ settings' = [rpm |-> RpmSetting(pr), temp |-> TempSetting(pt),
                    time |-> CapturedTime(pm)]
    /\ events' = {"startPress", "cycleStart"}
    /\ systemState' = "RUNNING"
    /\ buzzer' = playBeep(700)
    /\ i' = CapturedTime(pm) \div 10
    /\ lastStartState' = 0
    /\ pc' = "countdown"
    /\ UNCHANGED startHeld

\* lines 340-343, then lines 346-348
AlreadyRunning(r2) ==
    /\ events' = {"startPress", "alreadyRunning"}
    /\ buzzer' = playBeep(500)
    /\ lastStartState' = Latch(0, r2)
    /\ startHeld' = (startHeld /\ r2 = 0)
    /\ pc' = "switch"
    /\ UNCHANGED <<systemState, settings, i>>

\* line 308 false, then lines 346-348
NoStartEvent(r1, r2) ==
    /\ events' = {}
    /\ lastStartState' = Latch(lastStartState, r2)
    /\ startHeld' = (r1 = 0 /\ r2 = 0 /\ (systemState = "OFF" \/ startHeld))
    /\ pc' = "switch"
    /\ UNCHANGED <<systemState, settings, i, buzzer>>

\* lines 308-348: the start button part of handleButtons, up to its return or
\* to the entry of runCycleCountdown
HandleStartButton ==
    /\ pc = "start"
    /\ \E r1 \in Levels :
        IF StartFires(r1, lastStartState, systemState)
        THEN IF systemState = "IDLE"
             THEN /\ \E now \in SampleRuns(LoadLevels) :
                        pressLoad' = readAveragedSensor(now)
                  /\ IF StartAllowed(doorOpenWarningActive, overloadWarningActive)
                     THEN \E pr \in PotHalf, pt \in PotHalf, pm \in PotValues :
                            BeginCycle(pr, pt, pm)
                     ELSE \E r2 \in Levels : RejectStart(r2)
             ELSE /\ pressLoad' = pressLoad
                  /\ \E r2 \in Levels : AlreadyRunning(r2)
        ELSE /\ pressLoad' = pressLoad
             /\ \E r2 \in Levels : NoStartEvent(r1, r2)
    /\ UNCHANGED <<doorOpenWarningActive, overloadWarningActive, lastPowerState,
                   doorOpenCount, doorClosedCount, rgb, redLED, segDis, beeps,
                   pwrR1, pwrR2, lightRun, overRun, probe, prevVars, shown>>

\* lines 131-134: one pass of the countdown loop
CountdownStep ==
    /\ pc = "countdown"
    /\ i > 0
    /\ segDis' = updateDisplay(i, systemState)
    /\ shown' = Record(shown, i)
    /\ i' = CountdownNext(i)
    /\ events' = {"countdown"}
    /\ UNCHANGED <<pc, systemState, doorOpenWarningActive, overloadWarningActive,
                   lastPowerState, lastStartState, doorOpenCount, doorClosedCount,
                   rgb, redLED, buzzer, settings, beeps, pwrR1, pwrR2,
                   pressLoad, lightRun, overRun, startHeld, probe, prevVars>>

\* lines 131, 136-137: the loop ends
CountdownFinish ==
    /\ pc = "countdown"
    /\ ~(i > 0)
    /\ segDis' = updateDisplay(0, systemState)
    /\ shown' = Record(shown, 0)
    /\ events' = {"cycleComplete"}
    /\ beeps' = 0
    /\ pc' = "beeps"
    /\ UNCHANGED <<systemState, doorOpenWarningActive, overloadWarningActive,
                   lastPowerState, lastStartState, doorOpenCount, doorClosedCount,
                   rgb, redLED, buzzer, settings, i, pwrR1, pwrR2,
                   pressLoad, lightRun, overRun, startHeld, probe, prevVars>>

\* lines 140-143: one completion beep
CompletionBeep ==
    /\ pc = "beeps"
    /\ beeps < BEEP_REPEATS
    /\ buzzer' = playBeep(1000)
    /\ beeps' = beeps + 1
    /\ events' = {"beep"}
    /\ UNCHANGED <<pc, systemState, doorOpenWarningActive, overloadWarningActive,
                   lastPowerState, lastStartState, doorOpenCount, doorClosedCount,
                   rgb, redLED, segDis, settings, i, pwrR1, pwrR2,
                   pressLoad, lightRun, overRun, startHeld, probe, prevVars, shown>>

\* lines 140, 336-338, 346-348: runCycleCountdown returns, handleButtons ends
CycleEnd ==
    /\ pc = "beeps"
    /\ ~(beeps < BEEP_REPEATS)
    /\ systemState' = StateAfterCycle(systemState)
    /\ events' = {"cycleEnded"}
    /\ \E r2 \in Levels :
        /\ lastStartState' = Latch(lastStartState, r2)
        /\ startHeld' = (startHeld /\ r2 = 0)
    /\ settings' = NoSettings
    /\ i' = 0
    /\ beeps' = 0
    /\ shown' = <<>>
    /\ pc' = "switch"
    /\ UNCHANGED <<doorOpenWarningActive, overloadWarningActive, lastPowerState,
                   doorOpenCount, doorClosedCount, rgb, redLED, buzzer, segDis,
                   pwrR1, pwrR2, pressLoad, lightRun, overRun, probe, prevVars>>

\* lines 365-368
OffWait ==
    /\ pc = "switch"
    /\ systemState = "OFF"
    /\ pc' = "power"
    /\ events' = {}
    /\ UNCHANGED <<progVars, settings, i, beeps, pwrR1, pwrR2,
                   pressLoad, lightRun, overRun, startHeld, probe, prevVars, shown>>

\* lines 370-375 with lines 199-289
ReadAndProcessSensors ==
    /\ pc = "switch"
    /\ systemState \in {"IDLE", "RUNNING"}
    /\ doorOpenCount < MaxCount
    /\ doorClosedCount < MaxCount
    /\ \E pr \in PotHalf, pt \in PotHalf, pm \in PotEnds,
          s \in SampleRuns(PollLoadLevels), d \in LdrLevels, t \in SampleRuns(TempLevels) :
        LET rpm == RpmSetting(pr)
            temp == TempSetting(pt)
            time == SensorTime(pm)
            fsr == readAveragedSensor(s)
            ldr == readAveragedScaled([k \in 1 .. NUM_SAMPLES |-> d], 100)
            tempActual == readAveragedScaled(t, 330) \div 2
            settingsChanged == \/ hasSignificantChange(rpm, prevRpm, 50)
                               \/ hasSignificantChange(temp, prevTemp, 5)
                               \/ hasSignificantChange(time, prevTime, 5)
            sensorsChanged ==
                \/ hasSignificantChange(fsr, prevFsr, FSR_THRESHOLD * NUM_SAMPLES)
                \/ hasSignificantChange(tempActual, prevTempActual,
                                        TEMP_THRESHOLD * NUM_SAMPLES)
                \/ hasSignificantChange(ldr, prevLdr, LDR_THRESHOLD * NUM_SAMPLES)
            currentDoorReading == isDoorOpen(d)
            counts == DoorCounts(currentDoorReading, doorOpenCount, doorClosedCount)
            doorCurrentlyOpen == DoorDebounce(doorOpenWarningActive, counts[1], counts[2])
            doorBeep == /\ doorCurrentlyOpen # doorOpenWarningActive
                        /\ doorCurrentlyOpen
                        /\ systemState = "IDLE"
            currentlyOverloaded == isOverloaded(fsr)
            overNow == OverloadUpdate(overloadWarningActive, currentlyOverloaded)
            warned == OverloadWarned(overloadWarningActive, currentlyOverloaded)
            cleared == OverloadCleared(overloadWarningActive, currentlyOverloaded)
        IN  /\ segDis' = IF systemState = "IDLE"
                         THEN updateDisplay(time \div 10, systemState)
                         ELSE segDis
            /\ IF settingsChanged
               THEN prevRpm' = rpm /\ prevTemp' = temp /\ prevTime' = time
               ELSE UNCHANGED <<prevRpm, prevTemp, prevTime>>
            /\ IF sensorsChanged
               THEN prevFsr' = fsr /\ prevTempActual' = tempActual /\ prevLdr' = ldr
               ELSE UNCHANGED <<prevFsr, prevTempActual, prevLdr>>
            /\ doorOpenCount' = counts[1]
            /\ doorClosedCount' = counts[2]
            /\ doorOpenWarningActive' = doorCurrentlyOpen
            /\ redLED' = IF systemState = "IDLE" THEN DoorLed(doorCurrentlyOpen) ELSE redLED
            /\ rgb' = setLoadLevelColor(fsr)
            /\ overloadWarningActive' = overNow
            /\ buzzer' = IF doorBeep THEN playBeep(700)
                         ELSE IF warned THEN playBeep(500)
                         ELSE buzzer
            /\ events' = (IF settingsChanged THEN {"settingsLine"} ELSE {})
                         \cup (IF sensorsChanged THEN {"sensorLine"} ELSE {})
                         \cup (IF doorBeep THEN {"doorBeep"} ELSE {})
                         \cup (IF warned THEN {"overloadWarning"} ELSE {})
                         \cup (IF cleared THEN {"overloadClear"} ELSE {})
            /\ lightRun' = IF LightAboveThreshold(d)
                           THEN Min(lightRun + 1, DEBOUNCE_COUNT) ELSE 0
            /\ overRun' = RunAfter(overRun, currentlyOverloaded)
    /\ pc' = "power"
    /\ UNCHANGED <<systemState, lastPowerState, lastStartState, settings, i, beeps,
                   pwrR1, pwrR2, pressLoad, startHeld, probe, shown>>

Next ==
    \/ HandlePowerButton
    \/ HandleStartButton
    \/ CountdownStep
    \/ CountdownFinish
    \/ CompletionBeep
    \/ CycleEnd
    \/ OffWait
    \/ ReadAndProcessSensors

Spec == Init /\ [][Next]_vars

\* the single thread of main() always runs its next statement
LiveSpec == Spec /\ WF_vars(Next)

\* ------------------------------------------- the time mapping on its own
\* the two time computations applied to a pair of potentiometer reads
PotInit ==
    /\ InitProgram
    /\ probe \in {[a |-> x, b |-> y, done |-> FALSE, ta |-> 0, tb |-> 0,
                   ca |-> 0, cb |-> 0] : x \in PotValues, y \in PotValues}

ApplyTimeMapping ==
    /\ ~probe.done
    /\ probe' = [probe EXCEPT !.done = TRUE,
                              !.ta = SensorTime(probe.a),
                              !.tb = SensorTime(probe.b),
                              !.ca = CapturedTime(probe.a),
                              !.cb = CapturedTime(probe.b)]
    /\ UNCHANGED <<pc, progVars, settings, i, beeps, events, pwrR1, pwrR2,
                   pressLoad, lightRun, overRun, startHeld, prevVars, shown>>

PotNext == ApplyTimeMapping

PotSpec == PotInit /\ [][PotNext]_vars

\* -------------------------------------------- the load classifier alone
\* every value an averaged read of the force sensor can return, 0.0 .. 1.0 in
\* steps of 1 / (100 * NUM_SAMPLES)
LoadSums == 0 .. 100 * NUM_SAMPLES

LoadInit ==
    /\ InitProgram
    /\ probe \in {[load |-> x, done |-> FALSE, rgb |-> <<0, 0, 0>>, over |-> FALSE]
                    : x \in LoadSums}

\* lines 276 and 279 applied to one load
ApplyLoadClassifier ==
    /\ ~probe.done
    /\ probe' = [probe EXCEPT !.done = TRUE,
                              !.rgb = setLoadLevelColor(probe.load),
                              !.over = isOverloaded(probe.load)]
    /\ UNCHANGED <<pc, progVars, settings, i, beeps, events, pwrR1, pwrR2,
                   pressLoad, lightRun, overRun, startHeld, prevVars, shown>>

LoadNext == ApplyLoadClassifier

LoadSpec == LoadInit /\ [][LoadNext]_vars

\* ---------------------------------------------------------------- claims
PowerEvent(ev) == ev \cap {"powerOn", "powerOff"} # {}
SensorPoll == pc = "switch" /\ pc' = "power" /\ systemState # "OFF"
StartEventInIdle == pc = "start" /\ systemState = "IDLE" /\ "startPress" \in events'

\* C1: a start-button event handled in Idle while the door flag or the overload
\* flag is active leaves the state Idle on return from handleButtons, emits a
\* rejection event, captures no settings and runs no countdown step.
C1_RefusedStart ==
    [][(StartEventInIdle /\ (doorOpenWarningActive \/ overloadWarningActive))
        => /\ systemState' = "IDLE"
           /\ pc' = "switch"
           /\ events' \cap {"rejectDoor", "rejectOverload"} # {}
           /\ "cycleStart" \notin events'
           /\ settings' = NoSettings
           /\ i' = i
           /\ segDis' = segDis]_vars

C1_Witness ==
    /\ pc = "switch"
    /\ systemState = "IDLE"
    /\ overloadWarningActive
    /\ "rejectOverload" \in events

\* C2 as claimed: a start-button event in Idle at a moment when the instantaneous
\* load reading is overloaded never starts a cycle, whatever the flags.
C2_RawReadingDecides ==
    ~("cycleStart" \in events /\ isOverloaded(pressLoad))

\* C2 amended: the start decision consults the two stored flags and nothing else:
\* a start-button event in Idle starts a cycle exactly when both flags are
\* inactive, whatever the sensors read at that moment.
C2_FlagsDecide ==
    [][StartEventInIdle
        => ((systemState' = "RUNNING")
              <=> (~doorOpenWarningActive /\ ~overloadWarningActive))]_vars

C2_Witness ==
    /\ systemState = "RUNNING"
    /\ "cycleStart" \in events
    /\ isOverloaded(pressLoad)
    /\ ~overloadWarningActive

\* C3: with the door flag false, the third of three consecutive sensor polls
\* that read the door open (light above 40%) sets the door flag.
C3_ThirdOpenPollSetsFlag ==
    [][(SensorPoll /\ lightRun' >= DEBOUNCE_COUNT) => doorOpenWarningActive']_vars

\* C4 as claimed: the overload flag changes value at a sensor poll only when that
\* poll and the two before it all read the raw overload condition opposite to
\* the flag.
C4_OverloadDebounced ==
    [][(SensorPoll /\ overloadWarningActive' # overloadWarningActive)
        => (overRun' >= DEBOUNCE_COUNT \/ 0 - overRun' >= DEBOUNCE_COUNT)]_vars

\* C4 amended: the overload flag is not debounced: after every sensor poll it
\* equals the raw overload condition read at that poll, so it changes value
\* exactly at a poll whose raw condition is opposite to it.
C4_OverloadFollowsReading ==
    [][SensorPoll
        => /\ overloadWarningActive' = (overRun' > 0)
           /\ (overloadWarningActive' # overloadWarningActive)
                <=> ((overRun' > 0) # overloadWarningActive)]_vars

C4_Witness ==
    /\ pc = "power"
    /\ overloadWarningActive
    /\ overRun = 1

\* C5 as claimed: a power event fires at a poll exactly when the level polled at
\* it is pressed and the level polled most recently before it was released.
C5_PowerEdgeLastPolled ==
    [][pc = "power"
        => (PowerEvent(events') <=> (pwrR1' = 0 /\ pwrR2 = 1))]_vars

\* C5 amended: handleButtons reads the power button twice (lines 294 and 303) and
\* latches only the second read.  A power event fires only when the first read is
\* pressed; it fires whenever the previous poll's second read was released; it
\* does not fire when both reads of the previous poll were pressed (a held
\* button, and a button low from startup, yield no further event).
C5_PowerEdge ==
    [][pc = "power"
        => /\ PowerEvent(events') => pwrR1' = 0
           /\ (pwrR2 = 1 /\ pwrR1' = 0) => PowerEvent(events')
           /\ (pwrR1 = 0 /\ pwrR2 = 0 /\ pwrR1' = 0) => ~PowerEvent(events')]_vars

C5_Witness ==
    /\ pc = "start"
    /\ "powerOff" \in events
    /\ pwrR1 = 0
    /\ pwrR2 = 0

\* C6: a start button pressed while the system is Off and held ever since
\* produces no start event after a later power-on.
C6_HeldStartNeverFires ==
    ~(startHeld /\ "startPress" \in events)

\* C7: the state starts at Off; Off to Idle and Idle to Off happen only in a poll
\* where a power event fires, and every power event toggles between the two;
\* Idle to Running happens only on a start event with both flags inactive;
\* Running to Idle happens only when the cycle completes; nothing else changes
\* the state.
C7_Transitions ==
    /\ systemState = "OFF"
    /\ [][/\ systemState' # systemState
             => \/ /\ systemState = "OFF" /\ systemState' = "IDLE"
                   /\ pc = "power" /\ PowerEvent(events')
                \/ /\ systemState = "IDLE" /\ systemState' = "OFF"
                   /\ pc = "power" /\ PowerEvent(events')
                \/ /\ systemState = "IDLE" /\ systemState' = "RUNNING"
                   /\ StartEventInIdle
                   /\ ~doorOpenWarningActive /\ ~overloadWarningActive
                \/ /\ systemState = "RUNNING" /\ systemState' = "IDLE"
                   /\ pc = "beeps" /\ beeps = BEEP_REPEATS
          /\ (pc = "power" /\ PowerEvent(events'))
             => /\ systemState \in {"OFF", "IDLE"}
                /\ systemState' \in {"OFF", "IDLE"}
                /\ systemState' # systemState]_vars

C7_Witness ==
    /\ systemState = "OFF"
    /\ "powerOff" \in events
    /\ doorClosedCount > 0

\* C8: at the top of the control loop with the state Off, both flags are
\* inactive, the RGB duties are zero, the door LED is off, the buzzer duty is
\* zero and the display is blank.
C8_OffIsQuiet ==
    (pc = "power" /\ systemState = "OFF")
        => /\ ~doorOpenWarningActive
           /\ ~overloadWarningActive
           /\ rgb = <<0, 0, 0>>
           /\ redLED = 0
           /\ buzzer = 0
           /\ segDis = DISPLAY_OFF

C8_Witness ==
    /\ pc = "power"
    /\ systemState = "OFF"
    /\ overRun > 0

\* C9: whenever the state is Running, it is eventually Idle again.
C9_CycleTerminates ==
    (systemState = "RUNNING") ~> (systemState = "IDLE")

C9_Witness ==
    /\ systemState = "RUNNING"
    /\ settings.time = 90
    /\ i = 9

\* C10: both time computations give, for every potentiometer value in [0,1], a
\* number of minutes among 10, 20, ..., 90, non-decreasing in the value, the
\* same for the same value, 10 at 0.0 and 90 at 1.0.
C10_PotMinutes ==
    probe.done
        => /\ {probe.ta, probe.tb, probe.ca, probe.cb} \subseteq {10 * k : k \in 1 .. 9}
           /\ probe.a <= probe.b => (probe.ta <= probe.tb /\ probe.ca <= probe.cb)
           /\ probe.a = probe.b => (probe.ta = probe.tb /\ probe.ca = probe.cb)
           /\ probe.a = 0 => (probe.ta = 10 /\ probe.ca = 10)
           /\ probe.a = PotUnits => (probe.ta = 90 /\ probe.ca = 90)

C10_Witness ==
    /\ probe.done
    /\ probe.a = PotUnits
    /\ probe.b = 0
    /\ probe.ta = 90
    /\ probe.tb = 10

\* the five colours of lines 104-114, lowest tier first
TierColours == <<(<<0, 100, 0>>), (<<50, 100, 0>>), (<<100, 100, 0>>),
                 (<<100, 50, 0>>), (<<100, 0, 0>>)>>

\* C11: the load classifier is total over the load values and its tiers are
\* half-open ascending intervals: below 0.2 Light (green), [0.2, 0.4) Normal,
\* [0.4, 0.6) Medium, [0.6, 0.7) Heavy, 0.7 and above Overload (red); a load
\* on a boundary falls in the higher tier, and the five colours being
\* different every load is in exactly one tier.
C11_TiersHalfOpen ==
    /\ \A a \in 1 .. 5, b \in 1 .. 5 : a # b => TierColours[a] # TierColours[b]
    /\ probe.done =>
        LET m == probe.load
            c == probe.rgb
        IN  /\ (m < 20 * NUM_SAMPLES) => c = TierColours[1]
            /\ (20 * NUM_SAMPLES <= m /\ m < 40 * NUM_SAMPLES) => c = TierColours[2]
            /\ (40 * NUM_SAMPLES <= m /\ m < 60 * NUM_SAMPLES) => c = TierColours[3]
            /\ (60 * NUM_SAMPLES <= m /\ m < 70 * NUM_SAMPLES) => c = TierColours[4]
            /\ (70 * NUM_SAMPLES <= m) => c = TierColours[5]
            /\ Cardinality({t \in 1 .. 5 : c = TierColours[t]}) = 1

\* a load of exactly 0.2 has been classified Normal
C11_Witness ==
    /\ probe.done
    /\ probe.load = 20 * NUM_SAMPLES
    /\ probe.rgb = <<50, 100, 0>>

\* C12: the overload warning is logged at a sensor poll exactly when the
\* overload flag goes from inactive to active at that poll, and the clear
\* message exactly when it goes from active to inactive; neither message is
\* logged by any other step or at a poll that leaves the flag as it was.
C12_OverloadMessagesOnEdges ==
    [][ IF SensorPoll
        THEN /\ ("overloadWarning" \in events')
                    <=> (~overloadWarningActive /\ overloadWarningActive')
             /\ ("overloadClear" \in events')
                    <=> (overloadWarningActive /\ ~overloadWarningActive')
        ELSE events' \cap {"overloadWarning", "overloadClear"} = {} ]_vars

\* a poll has just cleared the flag and logged the clear message
C12_Witness ==
    /\ pc = "power"
    /\ "overloadClear" \in events
    /\ ~overloadWarningActive
    /\ overRun < 0

\* C13: power-off resets the six 'previous' reporting fields to the -1
\* sentinel: at every loop boundary with the system Off prevFsr, prevLdr,
\* prevTempActual, prevRpm, prevTemp and prevTime all hold the sentinel (so
\* that the first poll after each power-on would report both lines).
C13_PrevUnsetWhileOff ==
    (pc = "power" /\ systemState = "OFF") =>
        /\ prevFsr = PREV_UNSET
        /\ prevLdr = PREV_UNSET
        /\ prevTempActual = PREV_UNSET
        /\ prevRpm = PREV_UNSET
        /\ prevTemp = PREV_UNSET
        /\ prevTime = PREV_UNSET

\* the values n, n-1, .., n-len+1
Descending(n, len) == [k \in 1 .. len |-> n + 1 - k]

\* C14: a cycle captured with M minutes makes exactly M/10 countdown steps,
\* one display update each, showing steps, steps-1, .., 1 in strictly
\* decreasing order, then updates the display once with 0, then sounds
\* exactly three completion tones, and only then does the state go back to
\* Idle.
C14_CountdownSequence ==
    /\ [](pc = "countdown" =>
            /\ systemState = "RUNNING"
            /\ shown = Descending(settings.time \div 10, (settings.time \div 10) - i))
    /\ [](pc = "beeps" =>
            /\ systemState = "RUNNING"
            /\ shown = Descending(settings.time \div 10, (settings.time \div 10) + 1)
            /\ shown[Len(shown)] = 0
            /\ segDis = hexDis[1]
            /\ beeps <= 3)
    /\ [][ (systemState = "RUNNING" /\ systemState' # "RUNNING") =>
                /\ systemState' = "IDLE"
                /\ pc = "beeps"
                /\ beeps = 3 ]_vars

\* a 90-minute cycle has shown 9, 8, .., 1, 0 and sounded its three tones
C14_Witness ==
    /\ pc = "beeps"
    /\ settings.time = 90
    /\ shown = <<9, 8, 7, 6, 5, 4, 3, 2, 1, 0>>
    /\ beeps = 3

\* C15: power-off resets the door hysteresis completely: at every loop
\* boundary with the system Off the door flag is inactive and both
\* doorOpenCount and doorClosedCount are zero (so that after a power-off and
\* power-on the flag can become active at the earliest on the third
\* consecutive door-open poll).
C15_DoorHysteresisResetWhileOff ==
    (pc = "power" /\ systemState = "OFF") =>
        /\ ~doorOpenWarningActive
        /\ doorOpenCount = 0
        /\ doorClosedCount = 0

\* C16: in every reachable state at most one of doorOpenCount and
\* doorClosedCount is non-zero, and after each sensor poll exactly one of them
\* is non-zero: the one that matches the door reading of that poll, which with
\* isDoorOpen as written is the closed one.
C16_OneDoorCounter ==
    /\ [](~(doorOpenCount # 0 /\ doorClosedCount # 0))
    /\ [][ SensorPoll =>
                /\ (doorOpenCount' # 0) # (doorClosedCount' # 0)
                /\ doorClosedCount' = doorClosedCount + 1
                /\ doorOpenCount' = 0 ]_vars

\* two polls have counted the door closed
C16_Witness ==
    /\ pc = "power"
    /\ doorClosedCount = 2
    /\ doorOpenCount = 0

\* C17: at every loop boundary with the system Idle the door LED mirrors the
\* door flag: redLED is 1 exactly when doorOpenWarningActive is true; this
\* covers the boundary right after power-on, after a refused start and after
\* a completed cycle.
C17_DoorLedMirrorsFlag ==
    (pc = "power" /\ systemState = "IDLE") =>
        ((redLED = 1) <=> doorOpenWarningActive)

\* Idle at a loop boundary, a sensor poll having just written the LED
C17_Witness ==
    /\ pc = "power"
    /\ systemState = "IDLE"
    /\ doorClosedCount > 0
    /\ redLED = 0
    /\ ~doorOpenWarningActive

\* C18: the control loop never observes Running: at every entry to
\* handleButtons, at its start-button test and at the switch in main the
\* state is Off or Idle; the only state that follows Running is Idle; and the
\* 'cycle already in progress' branch of the start handler runs in no
\* execution.
C18_RunningNeverObserved ==
    /\ [](pc \in {"power", "start", "switch"} => systemState \in {"OFF", "IDLE"})
    /\ []("alreadyRunning" \notin events)
    /\ [][ (systemState = "RUNNING" /\ systemState' # "RUNNING")
                => systemState' = "IDLE" ]_vars

\* a cycle has just ended: the switch in main sees Idle
C18_Witness ==
    /\ pc = "switch"
    /\ "cycleEnded" \in events
    /\ systemState = "IDLE"

\* C19: after every sensor poll the overload flag agrees with the load
\* classifier: overloadWarningActive is true exactly when the load read at
\* that poll is in the Overload tier (RGB red, load >= 0.7), the boundary
\* value 0.7 included.
C19_FlagAgreesWithClassifier ==
    [][ SensorPoll => (overloadWarningActive' <=> rgb' = <<100, 0, 0>>) ]_vars

\* C20: the two computations of the cycle time agree for every position of
\* the time potentiometer: the minutes handleButtons captures (times 10, then
\* capped at 90) equal the minutes readAndProcessSensors computes (capped at
\* 9, then times 10), so the digit shown in Idle is the number of countdown
\* steps a cycle started at that position performs.
C20_TimeComputationsAgree ==
    probe.done =>
        /\ probe.ca = probe.ta
        /\ probe.cb = probe.tb
        /\ updateDisplay(probe.ta \div 10, "IDLE") = hexDis[(probe.ca \div 10) + 1]
        /\ updateDisplay(probe.tb \div 10, "IDLE") = hexDis[(probe.cb \div 10) + 1]

\* the knob fully up: both computations give 90 minutes, digit 9 and 9 steps
C20_Witness ==
    /\ probe.done
    /\ probe.a = PotUnits
    /\ probe.ta = 90
    /\ probe.ca = 90
====
